---- MODULE Spec2Model ----
(***************************************************************************)
(* Peppa: the glyph-cache-backed cell grid renderer (src/src/shader.rs),   *)
(* its font adapter (src/src/font.rs) and the Screen that drives it        *)
(* (src/src/gui.rs), and the program that runs them (src/src/main.rs).     *)
(*                                                                         *)
(* Conventions.                                                            *)
(*  - Rust indices are 0-based; the grid `cells` is a sequence of rows, so *)
(*    the cell the code calls cells[row][col] is cells[row+1][col+1] here. *)
(*  - A char is its code point; '\0' (char::default()) is 0.               *)
(*  - An f32 that is a quotient is kept exactly as a record [n, d]         *)
(*    (numerator, denominator); an f32 that is an integer is that integer  *)
(*    after ToF32.                                                         *)
(*  - OpenGL is modelled by the names it hands out (counters of generated  *)
(*    textures / vertex arrays / buffers: nothing is ever deleted, so the  *)
(*    smallest unused name stands for "a name not in use"), by the values  *)
(*    of the uniforms and the viewport, and by callLog, the GL commands      *)
(*    issued by the most recent call.                                      *)
(***************************************************************************)
EXTENDS Integers, Sequences, FiniteSets, TLC

\* ------------------------------------------------------------------ bounds
MaxLines == 2
MaxCols == 2
NumChars == 2
NumSizes == 2
MaxCellsCreated == 4
MaxTextures == 3
MaxStrs == 2
MaxStrLen == 2

\* ------------------------------------------------------- program constants
UvCanvasHeight == 1050
UvCanvasWidth == 2400
ScreenInitLines == 25
ScreenInitColumns == 80

VARIABLES
    cells,          \* TextShader.cells : Vec<Vec<Cell>>
    cache,          \* TextShader.glyph_cache.cache : HashMap<GlyphKey, Glyph>
    font,           \* TextShader.glyph_cache.font : [family, size]
    font_key,       \* TextShader.font_key
    cell_width,     \* TextShader.cell_width
    cell_height,    \* TextShader.cell_height
    cell_descent,   \* TextShader.cell_descent
    u_cell_size,    \* value of the uniform cellSize
    u_draw_flag,    \* value of the uniform drawFlag
    textures,       \* number of textures generated so far (names 1..textures)
    cellsCreated,   \* number of Cell::new calls so far
    rasterCalls,    \* number of Font::get_glyph calls so far
    ret,            \* the Glyph the most recent direct GlyphCache::get returned
    callLog,          \* GL and font-service calls issued by the most recent call
    size,           \* Screen.size : [lines, columns]
    lastCall,       \* the name of the most recent call
    panicked,       \* the thread panicked (index out of bounds, unwrap)
    env,            \* what the machine offers to TextShader::new
    created,        \* result of TextShader::new
    strs,           \* main: the strings to show, args[3..]
    pc              \* main: where the program is ("api" when main does not run)

vars == <<cells, cache, font, font_key, cell_width, cell_height, cell_descent,
          u_cell_size, u_draw_flag, textures, cellsCreated,
          rasterCalls, ret, callLog, size, lastCall, panicked, env, created,
          strs, pc>>

\* --------------------------------------------------------- input alphabets
Chars == 65..(64 + NumChars)
Sizes == 1..NumSizes
DefaultFamily == "Source Han Mono"
Families == {DefaultFamily, "Requested"}

\* ------------------------------------------------------------ arithmetic
RECURSIVE GCD(_, _)
GCD(a, b) == IF b = 0 THEN a ELSE GCD(b, a % b)

Abs(x) == IF x < 0 THEN -x ELSE x

\* An exact quotient n/d (d > 0) in lowest terms, so that equal values are
\* equal records.
Frac(n, d) == LET g == GCD(Abs(n), d) IN [n |-> n \div g, d |-> d \div g]

FracSub(x, y) == Frac(x.n * y.d - y.n * x.d, x.d * y.d)

\* `n as f32` for an unsigned integer n: exact up to 2^24, rounded to 24
\* significant bits (ties to even) above.
RECURSIVE F32Ulp(_)
F32Ulp(n) == IF n < 2^24 THEN 1 ELSE 2 * F32Ulp(n \div 2)

ToF32(n) ==
    LET u == F32Ulp(n)
        q == n \div u
        r == n % u
    IN  IF 2 * r < u \/ (2 * r = u /\ q % 2 = 0) THEN q * u ELSE (q + 1) * u

\* Faulty variant of FloorDivF32: rounds to the nearest integer instead of down.
RoundDivF32(a, b) == (2 * a + b) \div (2 * b)

\* `(a / b).floor() as usize` for integer-valued f32 a >= 0, b >= 1.  The f32
\* quotient is correctly rounded and a < 2^25, so rounding never reaches the
\* next integer: the floor is the integer quotient.
FloorDivF32(a, b) == a \div b

\* --------------------------------------------------------------- GL log
Gl(cmd, args) == [cmd |-> cmd, args |-> args]

RECURSIVE Flatten(_)
Flatten(ss) == IF ss = <<>> THEN <<>> ELSE Head(ss) \o Flatten(Tail(ss))

\* ------------------------------------------------------------------ Cell
\* GlInstanceAttr::default(): every f32 is 0.0.
GlInstanceAttr_default ==
    [col |-> 0, row |-> 0,
     uv_width |-> Frac(0, 1), uv_height |-> Frac(0, 1),
     uv_offset_x |-> Frac(0, 1), uv_offset_y |-> Frac(0, 1),
     baseline |-> Frac(0, 1)]

\* The words of a GlInstanceAttr, in field order, as BufferSubData sends them.
AttrWords(a) ==
    <<a.col, a.row, a.uv_width.n, a.uv_width.d, a.uv_height.n, a.uv_height.d,
      a.uv_offset_x.n, a.uv_offset_x.d, a.uv_offset_y.n, a.uv_offset_y.d,
      a.baseline.n, a.baseline.d>>

\* Faulty variant of Cell_new: the grid coordinates swapped.
Cell_new_swapped(row, col, k) ==
    [vao |-> k + 1, vbo |-> 2 * k + 2, ebo |-> 2 * k + 1,
     texture |-> 0, ch |-> 0,
     gl_instance_attr |->
        [col |-> ToF32(row), row |-> ToF32(col),
         uv_width |-> Frac(0, 1), uv_height |-> Frac(0, 1),
         uv_offset_x |-> Frac(0, 1), uv_offset_y |-> Frac(0, 1),
         baseline |-> Frac(0, 1)]]

\* Cell::new(row, col), the k-th Cell constructed (k counts from 0): GL hands
\* out vertex array k+1 and buffers 2k+1 (ebo, generated first) and 2k+2 (vbo).
Cell_new(row, col, k) ==
    [vao |-> k + 1, vbo |-> 2 * k + 2, ebo |-> 2 * k + 1,
     texture |-> 0, ch |-> 0,
     gl_instance_attr |->
        [GlInstanceAttr_default EXCEPT !.row = ToF32(row), !.col = ToF32(col)]]

\* The GL commands of Cell::new.
Cell_new_gl(k) ==
    <<Gl("GenVertexArrays", <<k + 1>>), Gl("BindVertexArray", <<k + 1>>),
      Gl("GenBuffers", <<2 * k + 1>>),
      Gl("BindBuffer(ELEMENT_ARRAY_BUFFER)", <<2 * k + 1>>),
      Gl("BufferData(ELEMENT_ARRAY_BUFFER)", <<0, 1, 2, 3, 0, 2>>),
      Gl("GenBuffers", <<2 * k + 2>>),
      Gl("BindBuffer(ARRAY_BUFFER)", <<2 * k + 2>>),
      Gl("BufferData(ARRAY_BUFFER)", <<>>),
      Gl("VertexAttribPointer", <<0, 2, 0>>), Gl("EnableVertexAttribArray", <<0>>),
      Gl("VertexAttribDivisor", <<0, 1>>),
      Gl("VertexAttribPointer", <<1, 4, 2>>), Gl("EnableVertexAttribArray", <<1>>),
      Gl("VertexAttribDivisor", <<1, 1>>),
      Gl("VertexAttribPointer", <<2, 1, 6>>), Gl("EnableVertexAttribArray", <<2>>),
      Gl("VertexAttribDivisor", <<2, 1>>)>>

\* Faulty variant of Cell_set_text: the texture handle is not taken over.
Cell_set_text_keeps_texture(cell, ch, glyph) ==
    [cell EXCEPT
        !.ch = ch,
        !.gl_instance_attr =
            [@ EXCEPT !.uv_width = glyph.uv_width,
                      !.uv_height = glyph.uv_height,
                      !.uv_offset_x = glyph.uv_left,
                      !.uv_offset_y = glyph.uv_bot,
                      !.baseline = FracSub(glyph.uv_height, glyph.uv_ascent)]]

\* Cell::set_text(ch, glyph).
Cell_set_text(cell, ch, glyph) ==
    [cell EXCEPT
        !.ch = ch,
        !.texture = glyph.texture,
        !.gl_instance_attr =
            [@ EXCEPT !.uv_width = glyph.uv_width,
                      !.uv_height = glyph.uv_height,
                      !.uv_offset_x = glyph.uv_left,
                      !.uv_offset_y = glyph.uv_bot,
                      !.baseline = FracSub(glyph.uv_height, glyph.uv_ascent)]]

\* Cell::draw(draw_flag): the GL commands of one pass.  Pass 0 draws the
\* filled quad (6 indices), every other pass a 4-index line loop.
Cell_draw(cell, draw_flag) ==
    <<Gl("BindVertexArray", <<cell.vao>>),
      Gl("BindTexture", <<cell.texture>>),
      Gl("BindBuffer(ELEMENT_ARRAY_BUFFER)", <<cell.ebo>>),
      Gl("BindBuffer(ARRAY_BUFFER)", <<cell.vbo>>),
      Gl("BufferSubData", AttrWords(cell.gl_instance_attr)),
      IF draw_flag = 0 THEN Gl("PolygonMode(FILL)", <<>>)
                       ELSE Gl("PolygonMode(LINE)", <<>>),
      IF draw_flag = 0 THEN Gl("DrawElementsInstanced(TRIANGLES)", <<6, 1, draw_flag>>)
                       ELSE Gl("DrawElementsInstanced(LINE_LOOP)", <<4, 1, draw_flag>>),
      Gl("BindVertexArray", <<0>>),
      Gl("BindTexture", <<0>>)>>

\* ---------------------------------------------------------- Font Service
\* What Font::get_glyph (the rasterizer) may answer for character c: an
\* error, or the character's bitmap with its placement.  `buf` names the
\* BitmapBuffer variant; odd code points have an RGB bitmap here, even ones
\* an RGBA bitmap.
BitmapOf(c) ==
    IF c % 2 = 1
    THEN [width |-> 8, height |-> 10, top |-> 9, left |-> 1, buf |-> "RGB"]
    ELSE [width |-> 16, height |-> 16, top |-> 14, left |-> 0, buf |-> "RGBA"]

RasterResults(c) == {[ok |-> FALSE], [ok |-> TRUE, glyph |-> BitmapOf(c)]}

\* RasterizedGlyph::default(): an empty RGB bitmap at the origin.
RasterizedGlyph_default ==
    [width |-> 0, height |-> 0, top |-> 0, left |-> 0, buf |-> "RGB"]

\* ----------------------------------------------------------- Glyph Cache
\* Faulty variant of load_glyph: an empty bitmap gets no texture (handle 0).
load_glyph_zero_on_empty(glyph, texture) ==
    [texture |-> IF glyph.width = 0 /\ glyph.height = 0 THEN 0 ELSE texture,
     colored |-> FALSE,
     top |-> glyph.top, left |-> glyph.left,
     width |-> glyph.width, height |-> glyph.height,
     uv_bot |-> Frac((-504 + 122 + glyph.top) * 2, UvCanvasHeight),
     uv_left |-> Frac(glyph.left * 2, UvCanvasWidth),
     uv_width |-> Frac(glyph.width * 2, UvCanvasWidth),
     uv_height |-> Frac(glyph.height * 2, UvCanvasHeight),
     uv_ascent |-> Frac(glyph.top * 2, UvCanvasHeight)]

\* GlyphCache::load_glyph(glyph): uploads the bitmap as texture number
\* `texture` (the name GenTextures returned) and builds the Glyph.  `colored`
\* is the outer binding, which the match inside the unsafe block shadows and
\* never changes.
load_glyph(glyph, texture) ==
    [texture |-> texture,
     colored |-> FALSE,
     top |-> glyph.top, left |-> glyph.left,
     width |-> glyph.width, height |-> glyph.height,
     uv_bot |-> Frac((-504 + 122 + glyph.top) * 2, UvCanvasHeight),
     uv_left |-> Frac(glyph.left * 2, UvCanvasWidth),
     uv_width |-> Frac(glyph.width * 2, UvCanvasWidth),
     uv_height |-> Frac(glyph.height * 2, UvCanvasHeight),
     uv_ascent |-> Frac(glyph.top * 2, UvCanvasHeight)]

load_glyph_gl(glyph, texture) ==
    <<Gl("PixelStorei(UNPACK_ALIGNMENT)", <<1>>),
      Gl("GenTextures", <<texture>>),
      Gl("ActiveTexture(TEXTURE0)", <<>>),
      Gl("BindTexture", <<texture>>),
      Gl("TexParameteri", <<>>),
      IF glyph.buf = "RGB" THEN Gl("TexImage2D(RGB)", <<glyph.width, glyph.height>>)
                           ELSE Gl("TexImage2D(RGBA)", <<glyph.width, glyph.height>>),
      Gl("BindTexture", <<0>>)>>

GlyphKey(fk, c, sz) == [font_key |-> fk, c |-> c, size |-> sz]

\* Faulty variant of cache_hit: the lookup never finds the key.
cache_hit_never(c0, glyph_key) == FALSE

\* The lookup `self.cache.get(&glyph_key)` of GlyphCache::get finds an entry.
cache_hit(c0, glyph_key) == glyph_key \in DOMAIN c0

\* Faulty variant of GlyphCache_get: a failed rasterization is not cached.
GlyphCache_get_drops_failure(c0, texs, calls, glyph_key, rast) ==
    IF cache_hit(c0, glyph_key)
    THEN [glyph |-> c0[glyph_key], cache |-> c0, textures |-> texs,
          rasterCalls |-> calls, gl |-> <<>>]
    ELSE LET rasterized == IF rast.ok THEN rast.glyph ELSE RasterizedGlyph_default
             glyph == load_glyph(rasterized, texs + 1)
         IN  [glyph |-> glyph,
              cache |-> IF rast.ok
                        THEN [k \in DOMAIN c0 \cup {glyph_key} |->
                                IF k = glyph_key THEN glyph ELSE c0[k]]
                        ELSE c0,
              textures |-> texs + 1,
              rasterCalls |-> calls + 1,
              gl |-> <<Gl("Rasterizer::get_glyph",
                          <<glyph_key.c, glyph_key.size, IF rast.ok THEN 1 ELSE 0>>)>>
                     \o load_glyph_gl(rasterized, texs + 1)]

\* GlyphCache::get(glyph_key) on cache `c0` with `texs` textures generated so
\* far and `calls` rasterizer calls so far, `rast` being what the rasterizer
\* answers if asked.  Yields the Glyph returned and the state afterwards.
GlyphCache_get(c0, texs, calls, glyph_key, rast) ==
    IF cache_hit(c0, glyph_key)
    THEN [glyph |-> c0[glyph_key], cache |-> c0, textures |-> texs,
          rasterCalls |-> calls, gl |-> <<>>]
    ELSE LET rasterized == IF rast.ok THEN rast.glyph ELSE RasterizedGlyph_default
             glyph == load_glyph(rasterized, texs + 1)
         IN  [glyph |-> glyph,
              cache |-> [k \in DOMAIN c0 \cup {glyph_key} |->
                            IF k = glyph_key THEN glyph ELSE c0[k]],
              textures |-> texs + 1,
              rasterCalls |-> calls + 1,
              gl |-> <<Gl("Rasterizer::get_glyph",
                          <<glyph_key.c, glyph_key.size, IF rast.ok THEN 1 ELSE 0>>)>>
                     \o load_glyph_gl(rasterized, texs + 1)]

\* ------------------------------------------------ Font (src/src/font.rs)
\* crossfont::Metrics as the rasterizer reports them; values are exact
\* quotients (FreeType reports 26.6 fixed point, i.e. 64ths).
FontMetrics ==
    {[average_advance |-> Frac(40, 64), line_height |-> Frac(160, 64),
      descent |-> Frac(-32, 64)],
     [average_advance |-> Frac(150, 64), line_height |-> Frac(192, 64),
      descent |-> Frac(-48, 64)]}

MetricsResults == {[ok |-> FALSE]} \cup {[ok |-> TRUE, metrics |-> m] : m \in FontMetrics}

ShaderFiles == {"unreadable", "compiles", "broken"}

\* What the machine offers to TextShader::new: the font families the
\* rasterizer can load, whether a rasterizer can be created, what it answers
\* to a metrics query, the state of the on-disk shader sources, whether the
\* embedded sources compile on this GPU, and whether the program links.
Envs ==
    [installed : SUBSET Families,
     rasterizer_ok : BOOLEAN,
     metrics : MetricsResults,
     v_file : ShaderFiles, f_file : ShaderFiles,
     v_embedded_ok : BOOLEAN, f_embedded_ok : BOOLEAN,
     link_ok : BOOLEAN]

\* Faulty variant of load_regular_font: no retry with the default family.
load_regular_font_no_fallback(e, family) ==
    [ok |-> family \in e.installed, key |-> family,
     log |-> <<Gl("Rasterizer::load_font(requested)", <<>>)>>]

\* Font::load_regular_font(description, size) for the family of
\* `description`: the requested family, or else the family of
\* Font::default() (whose construction creates one more rasterizer).
load_regular_font(e, family) ==
    IF family \in e.installed
    THEN [ok |-> TRUE, key |-> family,
          log |-> <<Gl("Rasterizer::load_font(requested)", <<>>)>>]
    ELSE [ok |-> DefaultFamily \in e.installed, key |-> DefaultFamily,
          log |-> <<Gl("Rasterizer::load_font(requested)", <<>>),
                    Gl("Rasterizer::new", <<>>),
                    Gl("Rasterizer::load_font(default)", <<>>)>>]

\* Font::compute_font_keys().
compute_font_keys(e, family) == load_regular_font(e, family)

\* Font::metrics(): loads the regular font again, then asks the rasterizer.
Font_metrics(e, family) ==
    LET l == load_regular_font(e, family)
    IN  IF ~l.ok THEN [ok |-> FALSE, log |-> l.log]
        ELSE [ok |-> e.metrics.ok,
              metrics |-> IF e.metrics.ok THEN e.metrics.metrics ELSE {},
              log |-> l.log \o <<Gl("Rasterizer::metrics", <<>>)>>]

Max(a, b) == IF a >= b THEN a ELSE b

\* TextShader::compute_cell_size: (descent, floor(average_advance).max(1),
\* floor(line_height).max(1)).  The f64 -> f32 cast is exact for these values.
compute_cell_size(m) ==
    [cell_descent |-> m.descent,
     cell_width |-> Max(m.average_advance.n \div m.average_advance.d, 1),
     cell_height |-> Max(m.line_height.n \div m.line_height.d, 1)]

\* create_shader(kind, path, source): the on-disk source when it can be
\* read, else the embedded one; TRUE iff that source compiles.
create_shader(file, embedded_ok) ==
    IF file = "unreadable" THEN embedded_ok ELSE file = "compiles"

\* create_program(vertex, fragment): TRUE iff the program links.
create_program(e) == e.link_ok

\* TextShader::new(dpr, font_family, font_size) in environment e.  dpr only
\* reaches Rasterizer::new.  `result` is "Ok", the CreationError variant, or
\* "panic" (Rasterizer::new(..).unwrap() in Font::new).
TextShader_new(e, font_family, font_size) ==
    LET vlog == <<Gl("create_shader(VERTEX_SHADER)", <<>>)>>
        flog == vlog \o <<Gl("create_shader(FRAGMENT_SHADER)", <<>>)>>
        plog == flog \o <<Gl("create_program", <<>>)>>
        nlog == plog \o <<Gl("Rasterizer::new", <<>>)>>
        keys == compute_font_keys(e, font_family)
        klog == nlog \o keys.log
        m1 == Font_metrics(e, font_family)
        m1log == klog \o m1.log
        m2 == Font_metrics(e, font_family)
        m2log == m1log \o m2.log
        Fail(r, l) == [result |-> r, log |-> l]
    IN  IF ~create_shader(e.v_file, e.v_embedded_ok) THEN Fail("Compile", vlog)
        ELSE IF ~create_shader(e.f_file, e.f_embedded_ok) THEN Fail("Compile", flog)
        ELSE IF ~create_program(e) THEN Fail("Link", plog)
        ELSE IF ~e.rasterizer_ok THEN Fail("panic", nlog)
        ELSE IF ~keys.ok THEN Fail("Font", klog)
        ELSE IF ~m1.ok THEN Fail("Font", m1log)
        ELSE IF ~m2.ok THEN Fail("Font", m2log)
        ELSE [result |-> "Ok",
              log |-> m2log \o <<Gl("GetUniformLocation(cellSize)", <<>>),
                                 Gl("GetUniformLocation(drawFlag)", <<>>)>>,
              font_key |-> keys.key,
              font |-> [family |-> font_family, size |-> font_size],
              cell |-> compute_cell_size(m1.metrics)]

\* --------------------------------------------------------------- states
EmptyCache == [k \in {} |-> 0]

\* Glyph::default(): stands for "no Glyph returned yet".
NoGlyph == load_glyph(RasterizedGlyph_default, 0)

\* The state before TextShader::new has run.
Blank ==
    /\ cells = <<>>
    /\ cache = EmptyCache
    /\ font = [family |-> "", size |-> 0]
    /\ font_key = ""
    /\ cell_width = 0
    /\ cell_height = 0
    /\ cell_descent = Frac(0, 1)
    /\ u_cell_size = <<Frac(0, 1), Frac(0, 1)>>
    /\ u_draw_flag = 0
    /\ textures = 0
    /\ cellsCreated = 0
    /\ rasterCalls = 0
    /\ ret = NoGlyph
    /\ callLog = <<>>
    /\ size = [lines |-> 0, columns |-> 0]
    /\ lastCall = "none"
    /\ panicked = FALSE
    /\ created = "none"

\* The state after Screen::new: TextShader::new returned Ok in environment e
\* (empty grid, empty cache), and Screen.size is 25 x 80.
Constructed(e, font_family, font_size) ==
    LET r == TextShader_new(e, font_family, font_size)
    IN  /\ r.result = "Ok"
        /\ env = e
        /\ created = "Ok"
        /\ cells = <<>>
        /\ cache = EmptyCache
        /\ font = r.font
        /\ font_key = r.font_key
        /\ cell_width = r.cell.cell_width
        /\ cell_height = r.cell.cell_height
        /\ cell_descent = r.cell.cell_descent
        /\ u_cell_size = <<Frac(0, 1), Frac(0, 1)>>
        /\ u_draw_flag = 0
            /\ textures = 0
        /\ cellsCreated = 0
        /\ rasterCalls = 0
        /\ ret = NoGlyph
        /\ callLog = r.log
        /\ size = [lines |-> ScreenInitLines, columns |-> ScreenInitColumns]
        /\ lastCall = "none"
        /\ panicked = FALSE

\* The environment the renderer operations are explored in: everything
\* construction needs works, no shader source on disk, a font whose cell is
\* 2 x 3 pixels.
GoodEnv ==
    [installed |-> Families, rasterizer_ok |-> TRUE,
     metrics |-> [ok |-> TRUE,
                  metrics |-> [average_advance |-> Frac(150, 64),
                               line_height |-> Frac(192, 64),
                               descent |-> Frac(-48, 64)]],
     v_file |-> "unreadable", f_file |-> "unreadable",
     v_embedded_ok |-> TRUE, f_embedded_ok |-> TRUE, link_ok |-> TRUE]

\* A renderer driven through its interface: main does not run.
Init == Constructed(GoodEnv, "Requested", 1) /\ strs = <<>> /\ pc = "api"

\* ------------------------------------------------------------ TextShader
InGrid(cs, row, col) == row < Len(cs) /\ col < Len(cs[row + 1])

\* TextShader::set_text(row, col, ch) on the renderer state st (its grid,
\* its cache and the GL counters), `rast` being what the rasterizer answers
\* if the glyph cache asks it.  The glyph is resolved first; then
\* self.cells[row][col] is indexed without a check, which panics when the
\* index is outside the grid.
set_text_on(st, row, col, ch, rast) ==
    LET g == GlyphCache_get(st.cache, st.textures, st.rasterCalls,
                            GlyphKey(font_key, ch, font.size), rast)
    IN  [cache |-> g.cache, textures |-> g.textures,
         rasterCalls |-> g.rasterCalls, log |-> g.gl,
         panicked |-> ~InGrid(st.cells, row, col),
         cells |-> IF InGrid(st.cells, row, col)
                   THEN [st.cells EXCEPT ![row + 1][col + 1] =
                            Cell_set_text(@, ch, g.glyph)]
                   ELSE st.cells]

\* Faulty variant of set_text: the resolved glyph is not kept in the cache.
set_text_forgets_entry(row, col, ch, rast) ==
    LET g == GlyphCache_get(cache, textures, rasterCalls,
                            GlyphKey(font_key, ch, font.size), rast)
    IN  [cache |-> cache, textures |-> g.textures,
         rasterCalls |-> g.rasterCalls, log |-> g.gl,
         panicked |-> ~InGrid(cells, row, col),
         cells |-> IF InGrid(cells, row, col)
                   THEN [cells EXCEPT ![row + 1][col + 1] =
                            Cell_set_text(@, ch, g.glyph)]
                   ELSE cells]

\* TextShader::set_text(row, col, ch), `rast` being what the rasterizer
\* answers if the glyph cache asks it.
set_text(row, col, ch, rast) ==
    set_text_on([cells |-> cells, cache |-> cache, textures |-> textures,
                 rasterCalls |-> rasterCalls], row, col, ch, rast)

\* Faulty variant of set_size_rejects: rejects only when both dimensions are zero.
set_size_rejects_both(lines, columns) == lines = 0 /\ columns = 0

\* The guard of TextShader::set_size: `lines == 0 || columns == 0`.
set_size_rejects(lines, columns) == lines = 0 \/ columns = 0

\* TextShader::set_size(lines, columns): rejected when a dimension is zero;
\* else sets the cellSize uniform to (2/columns, 2/lines) and replaces the
\* grid by lines x columns new Cells, constructed in row-major order.
set_size(lines, columns) ==
    IF set_size_rejects(lines, columns)
    THEN [cells |-> cells, u_cell_size |-> u_cell_size,
          cellsCreated |-> cellsCreated, log |-> <<>>]
    ELSE LET K(y, x) == cellsCreated + y * columns + x
         IN  [cells |-> [y \in 1..lines |->
                            [x \in 1..columns |-> Cell_new(y - 1, x - 1, K(y - 1, x - 1))]],
              u_cell_size |-> <<Frac(2, ToF32(columns)), Frac(2, ToF32(lines))>>,
              cellsCreated |-> cellsCreated + lines * columns,
              log |-> <<Gl("UseProgram(program)", <<>>),
                        Gl("Uniform2f(cellSize)", <<2, ToF32(columns), 2, ToF32(lines)>>)>>
                      \o Flatten([y \in 1..lines |->
                            Flatten([x \in 1..columns |-> Cell_new_gl(K(y - 1, x - 1))])])
                      \o <<Gl("UseProgram(0)", <<>>)>>]

\* The four passes TextShader::draw_frame issues for one cell.
draw_cell(cell) ==
    <<Gl("Uniform1i(drawFlag)", <<0>>)>> \o Cell_draw(cell, 0)
    \o <<Gl("Uniform1i(drawFlag)", <<1>>)>> \o Cell_draw(cell, 1)
    \o <<Gl("Uniform1i(drawFlag)", <<2>>)>> \o Cell_draw(cell, 2)
    \o <<Gl("Uniform1i(drawFlag)", <<3>>)>> \o Cell_draw(cell, 3)

\* Faulty variant of draw_frame: pass-major, every cell per pass.
draw_frame_by_pass(cs) ==
    <<Gl("Clear(COLOR_BUFFER_BIT|DEPTH_BUFFER_BIT)", <<>>),
      Gl("UseProgram(program)", <<>>)>>
    \o Flatten([p \in 1..4 |->
            Flatten([y \in 1..Len(cs) |->
                Flatten([x \in 1..Len(cs[y]) |->
                    <<Gl("Uniform1i(drawFlag)", <<p - 1>>)>>
                    \o Cell_draw(cs[y][x], p - 1)])])])

\* TextShader::draw_frame(): the GL commands of one frame.
draw_frame(cs) ==
    <<Gl("Clear(COLOR_BUFFER_BIT|DEPTH_BUFFER_BIT)", <<>>),
      Gl("UseProgram(program)", <<>>)>>
    \o Flatten([y \in 1..Len(cs) |->
            Flatten([x \in 1..Len(cs[y]) |-> draw_cell(cs[y][x])])])

\* TextShader::resize(width, height): sets the viewport, nothing else.
resize(width, height) == <<Gl("Viewport", <<0, 0, width, height>>)>>

\* --------------------------------------------------------------- actions
Alive == created = "Ok" /\ ~panicked

\* The rasterizer is asked only on a cache miss; on a hit its answer is moot.
RasterAnswers(glyph_key) ==
    IF glyph_key \in DOMAIN cache THEN {[ok |-> FALSE]}
    ELSE RasterResults(glyph_key.c)

SetText(row, col, ch) ==
    /\ Alive
    /\ \E rast \in RasterAnswers(GlyphKey(font_key, ch, font.size)) :
        LET r == set_text(row, col, ch, rast)
        IN  /\ cache' = r.cache
            /\ textures' = r.textures
            /\ rasterCalls' = r.rasterCalls
            /\ cells' = r.cells
            /\ panicked' = r.panicked
            /\ callLog' = r.log
    /\ lastCall' = "set_text"
    /\ UNCHANGED <<font, font_key, cell_width, cell_height, cell_descent,
                   u_cell_size, u_draw_flag, cellsCreated, ret, size, env, created,
                   strs, pc>>

SetSize(lines, columns) ==
    /\ Alive
    /\ cellsCreated + lines * columns <= MaxCellsCreated
    /\ LET r == set_size(lines, columns)
       IN  /\ cells' = r.cells
           /\ u_cell_size' = r.u_cell_size
           /\ cellsCreated' = r.cellsCreated
           /\ callLog' = r.log
    /\ lastCall' = "set_size"
    /\ UNCHANGED <<cache, font, font_key, cell_width, cell_height,
                   cell_descent, u_draw_flag, textures, rasterCalls, ret, size,
                   panicked, env, created,
                   strs, pc>>

Resize(width, height) ==
    /\ Alive
    /\ callLog' = resize(width, height)
    /\ lastCall' = "resize"
    /\ UNCHANGED <<cells, cache, font, font_key, cell_width, cell_height,
                   cell_descent, u_cell_size, u_draw_flag, textures,
                   cellsCreated, rasterCalls, ret, size, panicked, env, created,
                   strs, pc>>

DrawFrame ==
    /\ Alive
    /\ callLog' = draw_frame(cells)
    /\ u_draw_flag' = IF \E y \in 1..Len(cells) : Len(cells[y]) > 0
                      THEN 3 ELSE u_draw_flag
    /\ lastCall' = "draw_frame"
    /\ UNCHANGED <<cells, cache, font, font_key, cell_width, cell_height,
                   cell_descent, u_cell_size, textures, cellsCreated,
                   rasterCalls, ret, size, panicked, env, created,
                   strs, pc>>

\* Window sizes whose grid fits the bounds.
Widths == 0..((MaxCols + 1) * cell_width - 1)
Heights == 0..((MaxLines + 1) * cell_height - 1)

Next ==
    \/ \E row \in 0..MaxLines, col \in 0..MaxCols, ch \in Chars : SetText(row, col, ch)
    \/ \E lines \in 0..MaxLines, columns \in 0..MaxCols : SetSize(lines, columns)
    \/ \E width \in {0, MaxCols * cell_width}, height \in {0, MaxLines * cell_height} :
            Resize(width, height)
    \/ DrawFrame

\* The renderer driven through its own interface.
Spec == Init /\ [][Next]_vars

\* ------------------------------------------------ Screen (src/src/gui.rs)
\* Screen::resize() with the window's inner size width x height: computes
\* the grid shape from the cell pixel size, resizes the GL context, sets the
\* viewport (TextShader::resize), calls TextShader::set_size and stores the
\* computed shape in Screen.size.
Screen_resize(width, height) ==
    LET sz == [columns |-> FloorDivF32(ToF32(width), cell_width),
               lines |-> FloorDivF32(ToF32(height), cell_height)]
        r == set_size(sz.lines, sz.columns)
    IN  [size |-> sz, cells |-> r.cells,
         u_cell_size |-> r.u_cell_size, cellsCreated |-> r.cellsCreated,
         log |-> <<Gl("WindowedContext::resize", <<width, height>>),
                   Gl("Window::request_redraw", <<>>)>>
                 \o resize(width, height) \o r.log]

\* One execution of Screen::resize(), wherever the program calls it from.
Screen_resize_step(width, height) ==
    /\ Alive
    /\ LET r == Screen_resize(width, height)
       IN  /\ r.cellsCreated <= MaxCellsCreated
           /\ size' = r.size
           /\ cells' = r.cells
           /\ u_cell_size' = r.u_cell_size
           /\ cellsCreated' = r.cellsCreated
           /\ callLog' = r.log
    /\ lastCall' = "Screen::resize"
    /\ UNCHANGED <<cache, font, font_key, cell_width, cell_height,
                   cell_descent, u_draw_flag, textures, rasterCalls, ret,
                   panicked, env, created, strs>>

\* Screen::resize() called on the Screen directly.
ScreenResize(width, height) == Screen_resize_step(width, height) /\ pc' = pc

NextScreen ==
    \/ \E width \in Widths, height \in Heights : ScreenResize(width, height)
    \/ \E row \in 0..MaxLines, col \in 0..MaxCols :
            InGrid(cells, row, col) /\ SetText(row, col, 65)
    \/ DrawFrame

\* The renderer driven by the Screen's resize, with in-range writes of one
\* character in between.
SpecScreen == Init /\ [][NextScreen]_vars

\* ---------------------------------------------- the glyph cache, directly
\* GlyphCache::get(glyph_key) called on the renderer's cache with any key.
CacheGet(glyph_key) ==
    /\ Alive
    /\ glyph_key \in DOMAIN cache \/ textures < MaxTextures
    /\ \E rast \in RasterAnswers(glyph_key) :
        LET g == GlyphCache_get(cache, textures, rasterCalls, glyph_key, rast)
        IN  /\ cache' = g.cache
            /\ textures' = g.textures
            /\ rasterCalls' = g.rasterCalls
            /\ ret' = g.glyph
            /\ callLog' = g.gl
    /\ lastCall' = "get"
    /\ UNCHANGED <<cells, font, font_key, cell_width, cell_height,
                   cell_descent, u_cell_size, u_draw_flag, cellsCreated,
                   size, panicked, env, created,
                   strs, pc>>

\* The keys of one font: every character at every size.
Keys == {GlyphKey(font_key, c, sz) : c \in Chars, sz \in Sizes}

NextCache == \E glyph_key \in Keys : CacheGet(glyph_key)

SpecCache == Init /\ [][NextCache]_vars

\* ------------------------------------------------------- construction
\* TextShader::new(dpr, font_family, font_size) in the machine's environment.
New(font_family, font_size) ==
    /\ created = "none"
    /\ LET r == TextShader_new(env, font_family, font_size)
       IN  /\ created' = r.result
           /\ callLog' = r.log
           /\ panicked' = (r.result = "panic")
           /\ IF r.result = "Ok"
              THEN /\ font' = r.font
                   /\ font_key' = r.font_key
                   /\ cell_width' = r.cell.cell_width
                   /\ cell_height' = r.cell.cell_height
                   /\ cell_descent' = r.cell.cell_descent
              ELSE UNCHANGED <<font, font_key, cell_width, cell_height, cell_descent>>
    /\ lastCall' = "new"
    /\ UNCHANGED <<cells, cache, u_cell_size, u_draw_flag, textures,
                   cellsCreated, rasterCalls, ret, size, env, strs, pc>>

InitNew == Blank /\ env \in Envs /\ strs = <<>> /\ pc = "api"

NextNew == \E font_family \in Families, font_size \in Sizes : New(font_family, font_size)

SpecNew == InitNew /\ [][NextNew]_vars

\* ------------------------------------------------ main (src/src/main.rs)
\* The strings of the command line, args[3..]: at least one string (main
\* returns at once with fewer than four arguments), each possibly empty.
Strings == UNION {[1..n -> Chars] : n \in 0..MaxStrLen}

StrArgs == UNION {[1..n -> Strings] : n \in 1..MaxStrs}

Min(a, b) == IF a <= b THEN a ELSE b

\* Faulty variant of Screen_set_line: the row is not checked against Screen.size.
Screen_set_line_any_row(sz, row, s) ==
    [i \in 1..Min(Len(s), sz.columns) |-> [row |-> row, col |-> i - 1, ch |-> s[i]]]

\* Screen::set_line(row, s) with Screen.size = sz: the set_text calls it
\* issues, in order: none when row >= sz.lines, else one per character of
\* the first sz.columns characters of s.
Screen_set_line(sz, row, s) ==
    IF row >= sz.lines THEN <<>>
    ELSE [i \in 1..Min(Len(s), sz.columns) |-> [row |-> row, col |-> i - 1, ch |-> s[i]]]

\* redraw(screen): set_line(i, s) for every string s = args[3 + i]; the
\* set_text calls it issues, in order.
redraw_calls(sz, ss) == Flatten([i \in 1..Len(ss) |-> Screen_set_line(sz, i - 1, ss[i])])

\* The set_text calls `calls` executed in order on the renderer state st,
\* ans[c] being what the rasterizer answers when asked for character c; a
\* panic ends the execution.
RECURSIVE run_set_text(_, _, _)
run_set_text(st, calls, ans) ==
    IF calls = <<>> \/ st.panicked THEN st
    ELSE LET c == Head(calls)
             r == set_text_on(st, c.row, c.col, c.ch, ans[c.ch])
         IN  run_set_text([r EXCEPT !.log = st.log \o r.log], Tail(calls), ans)

\* redraw(screen) on the current state.
redraw(ans) ==
    run_set_text([cells |-> cells, cache |-> cache, textures |-> textures,
                  rasterCalls |-> rasterCalls, log |-> <<>>, panicked |-> FALSE],
                 redraw_calls(size, strs), ans)

\* What the rasterizer may answer during one redraw, per character.
RedrawAnswers ==
    {ans \in [Chars -> UNION {RasterResults(c) : c \in Chars}] :
        \A c \in Chars : ans[c] \in RasterAnswers(GlyphKey(font_key, c, font.size))}

\* The state change of redraw, followed by Screen::draw_frame when `draw`.
redraw_step(draw) ==
    /\ Alive
    /\ \E ans \in RedrawAnswers :
        LET r == redraw(ans)
        IN  /\ cells' = r.cells
            /\ cache' = r.cache
            /\ textures' = r.textures
            /\ rasterCalls' = r.rasterCalls
            /\ panicked' = r.panicked
            /\ callLog' = IF draw /\ ~r.panicked
                          THEN r.log \o draw_frame(r.cells)
                                \o <<Gl("WindowedContext::swap_buffers", <<>>)>>
                          ELSE r.log
            /\ u_draw_flag' = IF draw /\ ~r.panicked /\ r.cells # <<>>
                              THEN 3 ELSE u_draw_flag
    /\ UNCHANGED <<font, font_key, cell_width, cell_height, cell_descent,
                   u_cell_size, cellsCreated, ret, size, env, created, strs>>

\* main, line 65: screen.resize(), the window having some inner size.
MainResize(width, height) ==
    /\ pc = "main"
    /\ Screen_resize_step(width, height)
    /\ pc' = "resized"

\* main, line 67: redraw(&mut screen); then run(screen, el) starts the loop.
MainRedraw ==
    /\ pc = "resized"
    /\ redraw_step(FALSE)
    /\ lastCall' = "redraw"
    /\ pc' = "run"

\* run: WindowEvent::Resized => screen.resize().
Resized(width, height) ==
    /\ pc = "run"
    /\ Screen_resize_step(width, height)
    /\ pc' = pc

\* run: Event::RedrawRequested => redraw(&mut screen); screen.draw_frame().
RedrawRequested ==
    /\ pc = "run"
    /\ redraw_step(TRUE)
    /\ lastCall' = "RedrawRequested"
    /\ pc' = pc

\* The inner sizes a window takes: each dimension holds 0..Max whole cells
\* and a remainder of less than a cell.
WindowWidths == {c * cell_width + (cell_width - 1) : c \in 0..MaxCols}

WindowHeights == {l * cell_height + (cell_height - 1) : l \in 0..MaxLines}

\* main after Screen::new returned Ok (Screen.size is 25 x 80, the grid empty).
InitMain ==
    /\ Constructed(GoodEnv, "Requested", 1)
    /\ strs \in StrArgs
    /\ pc = "main"

NextMain ==
    \/ \E width \in WindowWidths, height \in WindowHeights : MainResize(width, height)
    \/ MainRedraw
    \/ \E width \in WindowWidths, height \in WindowHeights : Resized(width, height)
    \/ RedrawRequested

\* The program: main, then the event loop with any order of events.
SpecMain == InitMain /\ [][NextMain]_vars

\* =================================================================
\* Claims
\* =================================================================
GridLines(cs) == Len(cs)

GridColumns(cs) == IF Len(cs) = 0 THEN 0 ELSE Len(cs[1])

Rows == 0..MaxLines

Cols == 0..MaxCols

\* C1: set_text(row, col, ch) with row >= the grid's lines or col >= the
\* grid's columns does not panic and changes no cell, in every reachable
\* state, the empty grid after construction included.
C1_OutOfRangeIgnored ==
    [][\A row \in Rows, col \in Cols, ch \in Chars :
        ((row >= GridLines(cells) \/ col >= GridColumns(cells))
            /\ lastCall' = "set_text" /\ SetText(row, col, ch))
        => (~panicked' /\ cells' = cells)]_vars

\* C2: after set_size(L, C) with L > 0 and C > 0 the grid holds exactly L
\* rows of exactly C cells, and the cell at (row, col) carries those grid
\* coordinates in its instance attributes, whatever the grid was before.
C2_SetSizeShape ==
    [][\A L \in 1..MaxLines, C \in 1..MaxCols :
        (lastCall' = "set_size" /\ SetSize(L, C))
        => /\ Len(cells') = L
           /\ \A y \in 1..L :
                /\ Len(cells'[y]) = C
                /\ \A x \in 1..C :
                     /\ cells'[y][x].gl_instance_attr.row = y - 1
                     /\ cells'[y][x].gl_instance_attr.col = x - 1]_vars

\* A 2 x 1 grid allocated by set_size over an earlier grid of other shape.
C2_Witness ==
    /\ lastCall = "set_size"
    /\ Len(cells) = 2 /\ Len(cells[1]) = 1 /\ Len(cells[2]) = 1
    /\ cellsCreated = 4
    /\ cells[2][1].gl_instance_attr.row = 1

\* The grid is empty, or rectangular with lines > 0 and columns > 0.
C3_GridRectangular ==
    \/ cells = <<>>
    \/ /\ Len(cells) > 0
       /\ Len(cells[1]) > 0
       /\ \A y \in 1..Len(cells) : Len(cells[y]) = Len(cells[1])

\* C3: set_size(lines, columns) with lines = 0 or columns = 0 changes neither
\* the grid nor the cellSize uniform nor the glyph cache and constructs no
\* cell; and in every reachable state the grid is empty or rectangular with
\* lines > 0 and columns > 0.
C3_ZeroSizeNoop ==
    /\ []C3_GridRectangular
    /\ [][\A L \in Rows, C \in Cols :
            ((L = 0 \/ C = 0) /\ lastCall' = "set_size" /\ SetSize(L, C))
            => UNCHANGED <<cells, u_cell_size, cache, textures, cellsCreated>>]_vars

\* A zero-sized set_size was rejected on a grid that holds text.
C3_Witness ==
    /\ lastCall = "set_size"
    /\ callLog = <<>>
    /\ Len(cells) = 2
    /\ cells[1][1].ch = 65

\* The uploads and the rasterizations so far number the keys of the cache.
C4_UploadsMatchKeys ==
    /\ textures = Cardinality(DOMAIN cache)
    /\ rasterCalls = Cardinality(DOMAIN cache)

\* C4: repeated GlyphCache::get calls with the same key return a Glyph with
\* the identical texture handle, only the miss rasterizes and uploads, and
\* the number of uploads equals the number of distinct keys requested.
\* Every get returns the entry stored under its key; an entry, once stored,
\* never changes; a hit uploads and rasterizes nothing, a miss exactly once.
C4_CacheIdempotent ==
    /\ []C4_UploadsMatchKeys
    /\ [][\A key \in Keys :
            CacheGet(key)
            => /\ key \in DOMAIN cache'
               /\ ret' = cache'[key]
               /\ \A k \in DOMAIN cache : k \in DOMAIN cache' /\ cache'[k] = cache[k]
               /\ IF key \in DOMAIN cache
                  THEN textures' = textures /\ rasterCalls' = rasterCalls
                       /\ callLog' = <<>>
                  ELSE textures' = textures + 1 /\ rasterCalls' = rasterCalls + 1]_vars

\* A get that hit the first entry after a second key had been loaded.
C4_Witness ==
    /\ lastCall = "get"
    /\ callLog = <<>>
    /\ ret.texture = 1
    /\ textures = 2

\* C5: no two distinct keys of the cache share a texture handle, keys whose
\* rasterization failed included.
C5_DistinctHandles ==
    \A k1 \in DOMAIN cache, k2 \in DOMAIN cache :
        k1 # k2 => cache[k1].texture # cache[k2].texture

\* The cache holds one character at two sizes and another character, the
\* rasterization having failed for two of the keys.
C5_Witness ==
    \E k1 \in DOMAIN cache, k2 \in DOMAIN cache, k3 \in DOMAIN cache :
        /\ k1.c = k2.c /\ k1.size # k2.size /\ k3.c # k1.c
        /\ cache[k1].width = 0 /\ cache[k2].width = 0

\* The window size a Screen::resize step read (the argument it passed on
\* to the window context) is the first entry of the step's log.
C6_Width(log) == log[1].args[1]

C6_Height(log) == log[1].args[2]

\* C6 (as stated): after resize(W, H) the viewport is W x H and the grid
\* shape is exactly (floor(H / cell_height), floor(W / cell_width)), for
\* every W and H.
C6_ShapeAlwaysFloor ==
    [][lastCall' = "Screen::resize"
        => /\ GridLines(cells') = C6_Height(callLog') \div cell_height
           /\ GridColumns(cells') = C6_Width(callLog') \div cell_width]_vars

\* C6 (amended): Screen::resize with a W x H window sets the viewport to
\* W x H, stores (floor(H / cell_height), floor(W / cell_width)) in
\* Screen.size and calls set_size with it; the grid takes that shape when
\* both are positive and is left as it was when either is zero.
C6_ResizeReflow ==
    [][lastCall' = "Screen::resize"
        => LET W == C6_Width(callLog')
               H == C6_Height(callLog')
               L == H \div cell_height
               C == W \div cell_width
           IN  /\ \E i \in 1..Len(callLog') : callLog'[i] = Gl("Viewport", <<0, 0, W, H>>)
               /\ size' = [lines |-> L, columns |-> C]
               /\ IF L > 0 /\ C > 0
                  THEN /\ Len(cells') = L
                       /\ \A y \in 1..L : Len(cells'[y]) = C
                  ELSE cells' = cells]_vars

\* A 5 x 4 pixel window, neither a multiple of the 2 x 3 pixel cell, gave a
\* grid of 1 line and 2 columns.
C6_Witness ==
    /\ lastCall = "Screen::resize"
    /\ Len(callLog) >= 3
    /\ callLog[3] = Gl("Viewport", <<0, 0, 5, 4>>)
    /\ GridLines(cells) = 1
    /\ GridColumns(cells) = 2

\* The draw calls of a frame.
C7_IsDraw(e) ==
    e.cmd \in {"DrawElementsInstanced(TRIANGLES)", "DrawElementsInstanced(LINE_LOOP)"}

\* The calls of a frame that order its passes.
C7_Significant(e) ==
    \/ e.cmd \in {"Uniform1i(drawFlag)", "Clear(COLOR_BUFFER_BIT|DEPTH_BUFFER_BIT)",
                  "UseProgram(program)"}
    \/ e.cmd = "BindVertexArray" /\ e.args # <<0>>
    \/ C7_IsDraw(e)

\* The log is one frame of the grid cs: clear, program, then per cell in
\* row-major order the passes 0..3, each a drawFlag, a bind and a draw.
C7_FrameInOrder(log, cs) ==
    LET C == GridColumns(cs)
        n == GridLines(cs) * C
        sig == SelectSeq(log, C7_Significant)
    IN  /\ Len(sig) = 2 + 12 * n
        /\ log[1].cmd = "Clear(COLOR_BUFFER_BIT|DEPTH_BUFFER_BIT)"
        /\ log[2].cmd = "UseProgram(program)"
        /\ \A k \in 0..(4 * n - 1) :
            LET i == k \div 4
                cell == cs[(i \div C) + 1][(i % C) + 1]
            IN  /\ sig[3 * k + 3] = Gl("Uniform1i(drawFlag)", <<k % 4>>)
                /\ sig[3 * k + 4] = Gl("BindVertexArray", <<cell.vao>>)
                /\ C7_IsDraw(sig[3 * k + 5])
                /\ sig[3 * k + 5].args[3] = k % 4
                /\ (sig[3 * k + 5].cmd = "DrawElementsInstanced(TRIANGLES)") = (k % 4 = 0)

\* C7: draw_frame clears the buffers and activates the program, then
\* visits every cell once in row-major order and issues for each the four
\* passes 0, 1, 2, 3 in order, each preceded by setting drawFlag to the
\* pass; a cell's four passes complete before the next cell's first; no
\* cell and no cache entry changes.
C7_DrawFrameOrder ==
    [][DrawFrame
        => /\ C7_FrameInOrder(callLog', cells)
           /\ UNCHANGED <<cells, cache, textures, cellsCreated>>]_vars

\* A frame of a 2 x 2 grid some cell of which shows a glyph.
C7_Witness ==
    /\ lastCall = "draw_frame"
    /\ Len(cells) = 2 /\ Len(cells[1]) = 2
    /\ cells[2][1].texture # 0
    /\ Len(SelectSeq(callLog, C7_IsDraw)) = 16

\* The key TextShader::set_text looks up for character ch.
C8_Key(ch) == [font_key |-> font_key, c |-> ch, size |-> font.size]

C8_InRange(row, col) == row < GridLines(cells) /\ col < GridColumns(cells)

\* C8: an in-range set_text(row, col, ch) leaves the addressed cell showing
\* ch with the texture handle the cache maps ch to, and every other cell
\* (and the addressed cell's buffers and coordinates) as it was; entries
\* already cached stay; and no step other than a set_text or a reallocation
\* changes any cell, so each cell shows the last character written to it.
C8_SetTextLastWins ==
    [][/\ \A row \in Rows, col \in Cols, ch \in Chars :
            (C8_InRange(row, col) /\ lastCall' = "set_text" /\ SetText(row, col, ch))
            => /\ ~panicked'
               /\ C8_Key(ch) \in DOMAIN cache'
               /\ cells'[row + 1][col + 1].ch = ch
               /\ cells'[row + 1][col + 1].texture = cache'[C8_Key(ch)].texture
               /\ cells'[row + 1][col + 1].vao = cells[row + 1][col + 1].vao
               /\ cells'[row + 1][col + 1].gl_instance_attr.row = row
               /\ cells'[row + 1][col + 1].gl_instance_attr.col = col
               /\ Len(cells') = Len(cells)
               /\ \A y \in 1..Len(cells) :
                    /\ Len(cells'[y]) = Len(cells[y])
                    /\ \A x \in 1..Len(cells[y]) :
                         <<y, x>> # <<row + 1, col + 1>> => cells'[y][x] = cells[y][x]
               /\ \A k \in DOMAIN cache : k \in DOMAIN cache' /\ cache'[k] = cache[k]
       /\ (lastCall' # "set_text" /\ cellsCreated' = cellsCreated) => cells' = cells]_vars

\* The only cell ever allocated was written 'A' and then 'B': it shows 'B'
\* with B's texture, and the cache holds both entries.
C8_Witness ==
    /\ lastCall = "set_text"
    /\ ~panicked
    /\ cellsCreated = 1
    /\ Len(cells) = 1
    /\ cells[1][1].ch = 66
    /\ cells[1][1].texture = 2
    /\ C8_Key(65) \in DOMAIN cache /\ cache[C8_Key(65)].texture = 1
    /\ C8_Key(66) \in DOMAIN cache /\ cache[C8_Key(66)].texture = 2

\* The step asked the rasterizer and the rasterizer failed.
C9_RasterFailed(log) ==
    /\ Len(log) > 0
    /\ log[1].cmd = "Rasterizer::get_glyph"
    /\ log[1].args[3] = 0

\* C9 (as stated): when the rasterizer fails on a miss, the cache stores
\* under the key, and the cell receives, a record whose texture handle is 0.
C9_FailedGlyphTextureZero ==
    [][\A row \in Rows, col \in Cols, ch \in Chars :
        (C8_InRange(row, col) /\ C9_RasterFailed(callLog') /\ SetText(row, col, ch))
        => /\ ~panicked'
           /\ C8_Key(ch) \in DOMAIN cache'
           /\ cache'[C8_Key(ch)].texture = 0
           /\ cells'[row + 1][col + 1].texture = 0]_vars

\* C9 (amended): when the rasterizer fails on a miss, get does not fail: it
\* uploads the empty default bitmap as a new texture and stores under the
\* key a record of width and height 0 whose texture handle is that new,
\* non-zero handle, shared with no other entry; the cell that receives it
\* has an empty glyph box (renders blank); a later get of the key returns
\* the stored record without asking the rasterizer again.
C9_FailedGlyphBlank ==
    [][\A row \in Rows, col \in Cols, ch \in Chars :
        (C8_InRange(row, col) /\ lastCall' = "set_text" /\ SetText(row, col, ch))
        => /\ C9_RasterFailed(callLog')
              => /\ ~panicked'
                 /\ C8_Key(ch) \notin DOMAIN cache
                 /\ C8_Key(ch) \in DOMAIN cache'
                 /\ cache'[C8_Key(ch)].texture = textures + 1
                 /\ cache'[C8_Key(ch)].texture # 0
                 /\ \A k \in DOMAIN cache : cache[k].texture # cache'[C8_Key(ch)].texture
                 /\ cache'[C8_Key(ch)].width = 0
                 /\ cache'[C8_Key(ch)].height = 0
                 /\ cells'[row + 1][col + 1].texture = cache'[C8_Key(ch)].texture
                 /\ cells'[row + 1][col + 1].gl_instance_attr.uv_width.n = 0
                 /\ cells'[row + 1][col + 1].gl_instance_attr.uv_height.n = 0
           /\ C8_Key(ch) \in DOMAIN cache
              => /\ rasterCalls' = rasterCalls
                 /\ textures' = textures
                 /\ cache' = cache
                 /\ cells'[row + 1][col + 1].texture = cache[C8_Key(ch)].texture]_vars

\* 'A' failed to rasterize, and a later set_text of 'A' hit the cache: the
\* cell holds the failed glyph's texture and an empty glyph box.
C9_Witness ==
    /\ lastCall = "set_text"
    /\ ~panicked
    /\ callLog = <<>>
    /\ rasterCalls = 1
    /\ C8_Key(65) \in DOMAIN cache
    /\ cache[C8_Key(65)].width = 0
    /\ Len(cells) = 1
    /\ cells[1][1].ch = 65
    /\ cells[1][1].texture = 1
    /\ cells[1][1].gl_instance_attr.uv_width.n = 0

\* The number of entries of a log that are the command cmd.
C10_Count(log, cmd) == Cardinality({i \in 1..Len(log) : log[i].cmd = cmd})

\* C10 (as stated): TextShader::new returns Ok whenever the default family
\* loads (shaders compiling and linking) and returns Err(Font) only when
\* both the requested and the default family fail to load.
C10_OkWheneverDefaultLoads ==
    [][\A fam \in Families, sz \in Sizes :
        New(fam, sz)
        => /\ (created' \notin {"Compile", "Link"} /\ DefaultFamily \in env.installed)
              => created' = "Ok"
           /\ created' = "Font"
              => (fam \notin env.installed /\ DefaultFamily \notin env.installed)]_vars

\* C10 (amended): TextShader::new returns Ok whenever the requested or the
\* default family loads, the rasterizer can be created and its metrics query
\* succeeds (shaders compiling and linking); the font key is the requested
\* family's when it loads and the default family's otherwise; it returns
\* Err(Font) when both families fail to load, and otherwise only when the
\* metrics query fails; each of the three font loads of a construction
\* (font key, cell size, glyph cache metrics) retries with the default
\* family when the requested one fails.
C10_FontFallback ==
    [][\A fam \in Families, sz \in Sizes :
        New(fam, sz)
        => LET loads == fam \in env.installed \/ DefaultFamily \in env.installed
               past == created' \notin {"Compile", "Link", "panic"}
           IN  /\ (past /\ loads /\ env.metrics.ok)
                  => /\ created' = "Ok"
                     /\ font_key' = IF fam \in env.installed THEN fam ELSE DefaultFamily
                     /\ C10_Count(callLog', "Rasterizer::load_font(requested)") = 3
               /\ (past /\ ~loads) => created' = "Font"
               /\ created' = "Font" => (~loads \/ ~env.metrics.ok)
               /\ created' = "panic" => ~env.rasterizer_ok
               /\ \A i \in 1..Len(callLog') :
                    (callLog'[i].cmd = "Rasterizer::load_font(requested)"
                        /\ fam \notin env.installed)
                    => /\ i + 2 <= Len(callLog')
                       /\ callLog'[i + 2].cmd = "Rasterizer::load_font(default)"]_vars

\* A renderer constructed for a family that does not load: all three font
\* loads fell back to the default family.
C10_Witness ==
    /\ created = "Ok"
    /\ font.family = "Requested"
    /\ "Requested" \notin env.installed
    /\ font_key = DefaultFamily
    /\ C10_Count(callLog, "Rasterizer::load_font(default)") = 3


\* The vertex arrays and the buffers that are allocated in the GL context:
\* Cell::new generates one vertex array and two buffers per cell, and no
\* code deletes any (Cell has no Drop, and there is no DeleteVertexArrays or
\* DeleteBuffers call), so every name ever generated is still allocated.
AllocatedVertexArrays == 1..cellsCreated

AllocatedBuffers == 1..(2 * cellsCreated)

\* The vertex arrays and the buffers owned by the cells of the grid.
C11_GridVertexArrays ==
    {cells[y][x].vao : y \in 1..Len(cells), x \in 1..GridColumns(cells)}

C11_GridBuffers ==
    {cells[y][x].ebo : y \in 1..Len(cells), x \in 1..GridColumns(cells)}
    \cup {cells[y][x].vbo : y \in 1..Len(cells), x \in 1..GridColumns(cells)}

\* C11: every successful set_size replaces the whole grid by freshly
\* constructed cells (no character, texture handle 0), and the vertex arrays
\* and buffers still allocated are always exactly those owned by the cells
\* of the current grid, three per cell, never those of a replaced grid.
C11_OnlyCurrentGridBuffers ==
    /\ [](/\ AllocatedVertexArrays = C11_GridVertexArrays
          /\ AllocatedBuffers = C11_GridBuffers
          /\ Cardinality(AllocatedVertexArrays) + Cardinality(AllocatedBuffers)
                = 3 * GridLines(cells) * GridColumns(cells))
    /\ [][\A L \in Rows, C \in Cols :
            (L > 0 /\ C > 0 /\ lastCall' = "set_size" /\ SetSize(L, C))
            => \A y \in 1..L, x \in 1..C :
                    cells'[y][x].ch = 0 /\ cells'[y][x].texture = 0]_vars


\* Every cell of the grid has texture handle 0 and no character, or shows a
\* character whose cache entry exists and names the texture the cell holds.
C12_CellsNameCachedTextures ==
    \A y \in 1..Len(cells) : \A x \in 1..Len(cells[y]) :
        LET cell == cells[y][x]
        IN  IF cell.ch = 0
            THEN cell.texture = 0
            ELSE /\ C8_Key(cell.ch) \in DOMAIN cache
                 /\ cell.texture = cache[C8_Key(cell.ch)].texture
                 /\ cell.texture \in 1..textures

\* No call of the step deletes a texture.
C12_NoDelete(log) == \A i \in 1..Len(log) : log[i].cmd # "DeleteTextures"

\* C12: the glyph cache never evicts: across set_text, set_size, resize and
\* draw_frame an entry once inserted is never removed or overwritten and its
\* texture is never deleted, and in every reachable state each cell's
\* texture handle is 0 or the handle of an entry that is in the cache.
C12_CacheNeverEvicts ==
    /\ []C12_CellsNameCachedTextures
    /\ [][/\ \A k \in DOMAIN cache : k \in DOMAIN cache' /\ cache'[k] = cache[k]
          /\ textures' >= textures
          /\ C12_NoDelete(callLog')]_vars

\* A grid reallocated after its predecessor had shown 'A', and 'A' written
\* to the new grid from the cache entry made for the old one.
C12_Witness ==
    /\ lastCall = "set_text"
    /\ ~panicked
    /\ callLog = <<>>
    /\ cellsCreated = 2
    /\ rasterCalls = 1
    /\ GridLines(cells) = 1 /\ GridColumns(cells) = 1
    /\ cells[1][1].ch = 65
    /\ cells[1][1].vao = 2
    /\ cells[1][1].texture = 1
    /\ cache[C8_Key(65)].texture = 1


\* The outcome the five steps of TextShader::new give in environment e for
\* the family fam, by the first step that fails: compile vertex shader,
\* compile fragment shader, link program, load font, compute metrics.
C13_FirstFailure(e, fam) ==
    IF ~create_shader(e.v_file, e.v_embedded_ok) THEN "Compile"
    ELSE IF ~create_shader(e.f_file, e.f_embedded_ok) THEN "Compile"
    ELSE IF ~create_program(e) THEN "Link"
    ELSE IF fam \notin e.installed /\ DefaultFamily \notin e.installed THEN "Font"
    ELSE IF ~e.metrics.ok THEN "Font"
    ELSE "Ok"

\* The last call a construction with the given outcome made, when it stops
\* at its first failing step.
C13_LastCalls(result) ==
    CASE result = "Compile" -> {"create_shader(VERTEX_SHADER)", "create_shader(FRAGMENT_SHADER)"}
      [] result = "Link" -> {"create_program"}
      [] result = "Font" -> {"Rasterizer::load_font(requested)",
                             "Rasterizer::load_font(default)", "Rasterizer::metrics"}
      [] OTHER -> {"GetUniformLocation(drawFlag)"}

\* C13: TextShader::new has no partial-success state: it runs compile vertex
\* shader, compile fragment shader, link program, load font, compute metrics
\* in that order, stops at the first failing step, returns Err(Compile),
\* Err(Link) or Err(Font) accordingly without a renderer, and Ok otherwise;
\* an unreadable on-disk shader source is no error, the embedded source
\* being compiled instead.
C13_FirstFailureTyped ==
    [][\A fam \in Families, sz \in Sizes :
        New(fam, sz)
        => /\ created' \in {"Ok", "Compile", "Link", "Font"}
           /\ created' = C13_FirstFailure(env, fam)
           /\ callLog'[Len(callLog')].cmd \in C13_LastCalls(created')
           /\ created' # "Ok"
              => UNCHANGED <<font, font_key, cell_width, cell_height, cell_descent, cells, cache>>
           /\ (env.v_file = "unreadable" /\ env.v_embedded_ok
               /\ env.f_file = "unreadable" /\ env.f_embedded_ok)
              => created' # "Compile"]_vars


\* C14: in every state of the program in which a redraw can run (in main
\* after the first resize, and in the event loop after any events, resizes
\* to zero lines or columns included), every set_text call that
\* Screen::set_line issues targets a cell inside the renderer's grid, so
\* the unchecked index of TextShader::set_text never panics.
C14_SetLineInGrid ==
    /\ ~panicked
    /\ pc \in {"resized", "run"}
       => LET calls == redraw_calls(size, strs)
          IN  \A i \in 1..Len(calls) : InGrid(cells, calls[i].row, calls[i].col)
    /\ pc \in {"resized", "run"}
       => \/ size.lines = 0
          \/ size.columns = 0
          \/ size.lines = GridLines(cells) /\ size.columns = GridColumns(cells)

\* Two strings of two characters redrawn in the event loop on a grid of
\* one cell that a Resized event allocated: set_line wrote the first
\* character of the first string and nothing else.
C14_Witness ==
    /\ pc = "run"
    /\ lastCall = "RedrawRequested"
    /\ ~panicked
    /\ Len(strs) = 2 /\ Len(strs[1]) = 2 /\ Len(strs[2]) = 2
    /\ size = [lines |-> 1, columns |-> 1]
    /\ GridLines(cells) = 1 /\ GridColumns(cells) = 1
    /\ cells[1][1].vao > 1
    /\ cells[1][1].ch = strs[1][1]

\* C15: every frame the event loop draws shows the configured text on the
\* grid being drawn: after redraw and at draw_frame, every cell (i, j) of
\* the grid for which string i has a j-th character displays that
\* character, whatever the order of Resized and RedrawRequested events.
C15_FrameShowsText ==
    [][(lastCall' = "RedrawRequested" /\ RedrawRequested)
        => /\ ~panicked'
           /\ \A i \in 1..Len(strs) : \A j \in 1..Len(strs[i]) :
                InGrid(cells', i - 1, j - 1) => cells'[i][j].ch = strs[i][j]]_vars

====
